---- MODULE Spec2Model ----
(***************************************************************************)
(* Model of langchain_autotools: the CRUD pattern classifier               *)
(* (CrudControls), the operation builder (AutoToolWrapper) and the         *)
(* invocation adapter (AutoTool._run).                                     *)
(*                                                                         *)
(* Text (member names, patterns) is a sequence of one-character strings.   *)
(***************************************************************************)
EXTENDS Integers, Sequences, FiniteSets, TLC

(***************************************************************************)
(* Member names of the client (tests/unit_tests/test_autotool.py FakeSdk), *)
(* plus a second private method and one public data attribute, and three   *)
(* methods of another client: one that returns text and two that raise.    *)
(***************************************************************************)
_dummy_return == <<"_","d","u","m","m","y","_","r","e","t","u","r","n">>
_get_thing == <<"_","g","e","t","_","t","h","i","n","g">>
create_thing == <<"c","r","e","a","t","e","_","t","h","i","n","g">>
delete_thing == <<"d","e","l","e","t","e","_","t","h","i","n","g">>
get_thing == <<"g","e","t","_","t","h","i","n","g">>
get_things == <<"g","e","t","_","t","h","i","n","g","s">>
get_things_generator == <<"g","e","t","_","t","h","i","n","g","s","_","g","e","n","e","r","a","t","o","r">>
get_timeout == <<"g","e","t","_","t","i","m","e","o","u","t">>
get_broken == <<"g","e","t","_","b","r","o","k","e","n">>
get_invalid == <<"g","e","t","_","i","n","v","a","l","i","d">>
get_name == <<"g","e","t","_","n","a","m","e">>
update_thing == <<"u","p","d","a","t","e","_","t","h","i","n","g">>

(***************************************************************************)
(* The default pattern lists, and the other patterns the rule sets are     *)
(* drawn from.                                                             *)
(***************************************************************************)
CREATE_REGEX == <<"^","c","r","e","a","t","e","_","[","^","_","]","+","$">>
CREATE_GLOB == <<"c","r","e","a","t","e","_","*">>
READ_REGEX == <<"^","g","e","t","_","[","^","_","]","+","$">>
READ_GLOB == <<"g","e","t","_","*">>
UPDATE_REGEX == <<"^","u","p","d","a","t","e","_","[","^","_","]","+","$">>
UPDATE_GLOB == <<"u","p","d","a","t","e","_","*">>
DELETE_REGEX == <<"^","d","e","l","e","t","e","_","[","^","_","]","+","$">>
DELETE_GLOB == <<"d","e","l","e","t","e","_","*">>

AUTOTOOL_CRUD_CONTROLS_CREATE_LIST == <<CREATE_REGEX, CREATE_GLOB>>
AUTOTOOL_CRUD_CONTROLS_READ_LIST == <<READ_REGEX, READ_GLOB>>
AUTOTOOL_CRUD_CONTROLS_UPDATE_LIST == <<UPDATE_REGEX, UPDATE_GLOB>>
AUTOTOOL_CRUD_CONTROLS_DELETE_LIST == <<DELETE_REGEX, DELETE_GLOB>>

\* "get_thing": no regex character, kept as a glob pattern
PAT_GET_THING == get_thing
\* "*thing": sniffed as regex, re.error (nothing to repeat)
PAT_STAR_THING == <<"*","t","h","i","n","g">>
\* "(get": sniffed as regex, re.error (missing parenthesis)
PAT_OPEN_GET == <<"(","g","e","t">>
\* r"get_thing" written with its textual marker
PAT_R_GET_THING == <<"r","\"","g","e","t","_","t","h","i","n","g","\"">>
\* r"*thing" written with its textual marker: re.error once stripped
PAT_R_STAR_THING == <<"r","\"","*","t","h","i","n","g","\"">>
\* "g{4294967295}": a repetition count of MAXREPEAT
PAT_OVERFLOW == <<"g","{","4","2","9","4","9","6","7","2","9","5","}">>

\* sre_constants.MAXREPEAT (2^32 - 1), as decimal digits
MAXREPEAT_DIGITS == <<"4","2","9","4","9","6","7","2","9","5">>

DIGITS == {"0","1","2","3","4","5","6","7","8","9"}

\* CrudControls._is_regex_pattern: regex_chars
regex_chars == {".","^","$","*","+","?","{","}","[","]","|","\\","(",")"}

----------------------------------------------------------------------------
(***************************************************************************)
(* Text helpers                                                            *)
(***************************************************************************)
startswith(s, prefix) ==
    /\ Len(s) >= Len(prefix)
    /\ SubSeq(s, 1, Len(prefix)) = prefix

\* CrudControls._is_regex_pattern
_is_regex_pattern(pattern) ==
    \/ startswith(pattern, <<"r","\"">>)
    \/ startswith(pattern, <<"r","'">>)
    \/ \E i \in 1..Len(pattern) : pattern[i] \in regex_chars

\* compile_patterns: pattern[2:-1] when the pattern carries the r"" marker
StripMarker(pattern) ==
    IF startswith(pattern, <<"r","\"">>) \/ startswith(pattern, <<"r","'">>)
    THEN SubSeq(pattern, 3, Len(pattern) - 1)
    ELSE pattern

----------------------------------------------------------------------------
(***************************************************************************)
(* re.compile on the constructs the patterns above use: literals, . ^ $,   *)
(* character sets [..] and [^..], the repeats * + ? {n} and a lazy ? after *)
(* a repeat.  "(" never finds its ")" in these patterns.  A compiled       *)
(* pattern is a sequence of items.                                         *)
(***************************************************************************)
Unbounded == -1

Item(k, c, neg, set) ==
    [k |-> k, c |-> c, neg |-> neg, set |-> set, rep |-> FALSE, min |-> 1, max |-> 1]

Repeat(item, min, max) == [item EXCEPT !.rep = TRUE, !.min = min, !.max = max]

RECURSIVE StripZeros(_)
StripZeros(ds) ==
    IF Len(ds) > 1 /\ ds[1] = "0" THEN StripZeros(Tail(ds)) ELSE ds

DigitValue(d) == CHOOSE n \in 0..9 : <<"0","1","2","3","4","5","6","7","8","9">>[n + 1] = d

RECURSIVE DigitsLess(_, _)
\* a < b for digit sequences of the same length
DigitsLess(a, b) ==
    IF a = <<>> THEN FALSE
    ELSE IF a[1] # b[1] THEN DigitValue(a[1]) < DigitValue(b[1])
    ELSE DigitsLess(Tail(a), Tail(b))

\* int(lo) >= MAXREPEAT
RepeatTooLarge(lo) ==
    LET a == StripZeros(lo) IN
    \/ Len(a) > Len(MAXREPEAT_DIGITS)
    \/ Len(a) = Len(MAXREPEAT_DIGITS) /\ ~DigitsLess(a, MAXREPEAT_DIGITS)

RECURSIVE DecValue(_)
DecValue(ds) ==
    IF ds = <<>> THEN 0
    ELSE DecValue(SubSeq(ds, 1, Len(ds) - 1)) * 10 + DigitValue(ds[Len(ds)])

\* int(lo); a count too long for the checker's integers is as good as any
\* count longer than every name
RepeatCount(lo) ==
    LET a == StripZeros(lo) IN
    IF Len(a) > 9 THEN 999999999 ELSE DecValue(a)

RECURSIVE DigitRunEnd(_, _)
\* index of the first non-digit at or after i
DigitRunEnd(p, i) ==
    IF i <= Len(p) /\ p[i] \in DIGITS THEN DigitRunEnd(p, i + 1) ELSE i

RECURSIVE SetEnd(_, _)
\* index of the "]" closing a character set whose members start before j,
\* 0 when there is none
SetEnd(p, j) ==
    IF j > Len(p) THEN 0
    ELSE IF p[j] = "]" THEN j
    ELSE SetEnd(p, j + 1)

ParseOk(items) == [err |-> "none", items |-> items]
ParseError == [err |-> "re.error", items |-> <<>>]
ParseOverflow == [err |-> "OverflowError", items |-> <<>>]

RECURSIVE ReParse(_, _, _)
ReParse(p, i, items) ==
    IF i > Len(p) THEN ParseOk(items)
    ELSE LET c == p[i]
             \* a lazy "?" after a repeat is consumed with it
             After(j) == IF j <= Len(p) /\ p[j] = "?" THEN j + 1 ELSE j
             Last == items[Len(items)]
             Repeated(min, max, next) ==
                 IF items = <<>> \/ Last.k \in {"bol", "eol"} THEN ParseError
                 ELSE IF Last.rep THEN ParseError
                 ELSE ReParse(p, After(next),
                              [items EXCEPT ![Len(items)] = Repeat(Last, min, max)])
         IN
         CASE c = "*" -> Repeated(0, Unbounded, i + 1)
           [] c = "+" -> Repeated(1, Unbounded, i + 1)
           [] c = "?" -> Repeated(0, 1, i + 1)
           [] c = "{" ->
                LET e == DigitRunEnd(p, i + 1)
                    lo == SubSeq(p, i + 1, e - 1)
                IN IF e > Len(p) \/ p[e] # "}" \/ lo = <<>>
                   THEN \* "{" not opening a repeat is a literal
                        ReParse(p, i + 1, Append(items, Item("lit", c, FALSE, {})))
                   ELSE IF RepeatTooLarge(lo) THEN ParseOverflow
                   ELSE Repeated(RepeatCount(lo), RepeatCount(lo), e + 1)
           [] c = "[" ->
                LET neg == i + 1 <= Len(p) /\ p[i + 1] = "^"
                    start == IF neg THEN i + 2 ELSE i + 1
                    close == SetEnd(p, start + 1)
                IN IF start > Len(p) \/ close = 0 THEN ParseError
                   ELSE ReParse(p, close + 1,
                                Append(items, Item("set", c, neg,
                                                   {p[m] : m \in start..(close - 1)})))
           [] c = "(" -> ParseError
           [] c = "^" -> ReParse(p, i + 1, Append(items, Item("bol", c, FALSE, {})))
           [] c = "$" -> ReParse(p, i + 1, Append(items, Item("eol", c, FALSE, {})))
           [] c = "." -> ReParse(p, i + 1, Append(items, Item("any", c, FALSE, {})))
           [] OTHER -> ReParse(p, i + 1, Append(items, Item("lit", c, FALSE, {})))

\* re.compile(pattern)
re_compile(pattern) == ReParse(pattern, 1, <<>>)

AtomMatches(item, ch) ==
    CASE item.k = "lit" -> ch = item.c
      [] item.k = "any" -> TRUE
      [] item.k = "set" -> (ch \in item.set) # item.neg
      [] OTHER -> FALSE

RECURSIVE ReMatchFrom(_, _, _, _)
\* the items from k on match s at position j (re's match: anchored at the
\* start only)
ReMatchFrom(items, k, s, j) ==
    IF k > Len(items) THEN TRUE
    ELSE LET it == items[k] IN
         CASE it.k = "bol" -> j = 1 /\ ReMatchFrom(items, k + 1, s, j)
           [] it.k = "eol" -> j = Len(s) + 1 /\ ReMatchFrom(items, k + 1, s, j)
           [] OTHER ->
                LET avail == Len(s) - j + 1
                    most == IF it.max = Unbounded \/ it.max > avail THEN avail ELSE it.max
                IN \E n \in it.min..most :
                      /\ \A m \in j..(j + n - 1) : AtomMatches(it, s[m])
                      /\ ReMatchFrom(items, k + 1, s, j + n)

\* Pattern.match(func_name)
re_match(compiled, func_name) == ReMatchFrom(compiled, 1, func_name, 1)

----------------------------------------------------------------------------
(***************************************************************************)
(* fnmatch.fnmatch(name, pat): whole-string comparison with * ? [seq] and  *)
(* [!seq]; a "[" that is never closed is a literal.                        *)
(***************************************************************************)
RECURSIVE GlobFrom(_, _, _, _)
GlobFrom(pat, i, name, j) ==
    IF i > Len(pat) THEN j = Len(name) + 1
    ELSE LET c == pat[i] IN
         CASE c = "*" ->
                \E n \in j..(Len(name) + 1) : GlobFrom(pat, i + 1, name, n)
           [] c = "?" -> j <= Len(name) /\ GlobFrom(pat, i + 1, name, j + 1)
           [] c = "[" ->
                LET neg == i + 1 <= Len(pat) /\ pat[i + 1] = "!"
                    start == IF neg THEN i + 2 ELSE i + 1
                    close == IF start > Len(pat) THEN 0 ELSE SetEnd(pat, start + 1)
                IN IF close = 0
                   THEN /\ j <= Len(name)
                        /\ name[j] = "["
                        /\ GlobFrom(pat, i + 1, name, j + 1)
                   ELSE /\ j <= Len(name)
                        /\ (name[j] \in {pat[m] : m \in start..(close - 1)}) # neg
                        /\ GlobFrom(pat, close + 1, name, j + 1)
           [] OTHER ->
                /\ j <= Len(name)
                /\ name[j] = c
                /\ GlobFrom(pat, i + 1, name, j + 1)

fnmatch(name, pat) == GlobFrom(pat, 1, name, 1)

----------------------------------------------------------------------------
(***************************************************************************)
(* CrudControls                                                            *)
(***************************************************************************)
CRUD_TYPES == <<"create", "read", "update", "delete">>

Buckets == {CRUD_TYPES[k] : k \in 1..Len(CRUD_TYPES)}

\* An Optional[List[str]] field: None, or a list of patterns
NoneList == [isNone |-> TRUE, pats |-> <<>>]
ListOf(pats) == [isNone |-> FALSE, pats |-> pats]

AUTOTOOL_CRUD_CONTROLS ==
    [create |-> FALSE, read |-> TRUE, update |-> FALSE, delete |-> FALSE]

AUTOTOOL_CRUD_CONTROLS_LIST ==
    [create |-> ListOf(AUTOTOOL_CRUD_CONTROLS_CREATE_LIST),
     read   |-> ListOf(AUTOTOOL_CRUD_CONTROLS_READ_LIST),
     update |-> ListOf(AUTOTOOL_CRUD_CONTROLS_UPDATE_LIST),
     delete |-> ListOf(AUTOTOOL_CRUD_CONTROLS_DELETE_LIST)]

\* The empty dict a CrudControls starts with, and that clear() leaves
EmptyCache == [b \in {} |-> [regex |-> <<>>, glob |-> <<>>]]

RECURSIVE CompileList(_, _, _, _)
\* compile_patterns, the loop over one bucket's pattern_list.  A compiled
\* regex is kept as the text it was compiled from.
CompileList(pattern_list, i, regex_patterns, glob_patterns) ==
    IF i > Len(pattern_list)
    THEN [exc |-> "none", regex |-> regex_patterns, glob |-> glob_patterns]
    ELSE LET pattern == pattern_list[i] IN
         IF _is_regex_pattern(pattern)
         THEN LET stripped == StripMarker(pattern)
                  err == re_compile(stripped).err
              IN CASE err = "none" ->
                        CompileList(pattern_list, i + 1,
                                    Append(regex_patterns, stripped), glob_patterns)
                   [] err = "re.error" ->
                        CompileList(pattern_list, i + 1,
                                    regex_patterns, Append(glob_patterns, stripped))
                   [] OTHER ->
                        [exc |-> err, regex |-> regex_patterns, glob |-> glob_patterns]
         ELSE CompileList(pattern_list, i + 1,
                          regex_patterns, Append(glob_patterns, pattern))

RECURSIVE CompileFrom(_, _, _)
\* compile_patterns, the loop over the crud types from the k-th on; an
\* exception leaves the entries stored so far
CompileFrom(lists, k, cache) ==
    IF k > Len(CRUD_TYPES) THEN [exc |-> "none", cache |-> cache]
    ELSE LET crud_type == CRUD_TYPES[k] IN
         IF lists[crud_type].isNone
         THEN [exc |-> "TypeError", cache |-> cache]
         ELSE LET r == CompileList(lists[crud_type].pats, 1, <<>>, <<>>) IN
              IF r.exc # "none" THEN [exc |-> r.exc, cache |-> cache]
              ELSE CompileFrom(lists, k + 1,
                               cache @@ (crud_type :> [regex |-> r.regex, glob |-> r.glob]))

\* CrudControls.compile_patterns
compile_patterns(lists) == CompileFrom(lists, 1, EmptyCache)

CacheGet(cache, crud_type) ==
    IF crud_type \in DOMAIN cache THEN cache[crud_type]
    ELSE [regex |-> <<>>, glob |-> <<>>]

\* matches_pattern once the cache is there
MatchCompiled(func_name, crud_type, flags, cache) ==
    IF ~flags[crud_type] THEN FALSE
    ELSE LET patterns == CacheGet(cache, crud_type) IN
         \/ \E i \in 1..Len(patterns.regex) :
               re_match(re_compile(patterns.regex[i]).items, func_name)
         \/ \E i \in 1..Len(patterns.glob) :
               fnmatch(func_name, patterns.glob[i])

\* CrudControls.matches_pattern: the outcome and the cache it leaves
matches_pattern(func_name, crud_type, flags, lists, cache) ==
    LET c == IF cache = EmptyCache THEN compile_patterns(lists)
             ELSE [exc |-> "none", cache |-> cache]
    IN IF c.exc # "none"
       THEN [exc |-> c.exc, value |-> FALSE, cache |-> c.cache]
       ELSE [exc |-> "none",
             value |-> MatchCompiled(func_name, crud_type, flags, c.cache),
             cache |-> c.cache]

----------------------------------------------------------------------------
(***************************************************************************)
(* Python values, JSON documents and texts.  A value is a record of one    *)
(* shape: its type t, an integer n, a text s and its items (the entries of *)
(* a dict, the elements of a list or the values a generator produces).     *)
(* A JSON document has the same shape with JSON's own types.               *)
(***************************************************************************)
PyNone == [t |-> "none", n |-> 0, s |-> <<>>, items |-> <<>>]
PyInt(n) == [PyNone EXCEPT !.t = "int", !.n = n]
PyStr(s) == [PyNone EXCEPT !.t = "str", !.s = s]
PyDict(items) == [PyNone EXCEPT !.t = "dict", !.items = items]
PyList(items) == [PyNone EXCEPT !.t = "list", !.items = items]
PyGenerator(items) == [PyNone EXCEPT !.t = "generator", !.items = items]

Entry(k, v) == [k |-> k, v |-> v]
Elem(v) == Entry("", v)
EmptyDict == PyDict(<<>>)

Keys(d) == {d.items[i].k : i \in 1..Len(d.items)}
Get(d, k) == d.items[CHOOSE i \in 1..Len(d.items) : d.items[i].k = k].v

JsonNull == [t |-> "null", n |-> 0, s |-> <<>>, items |-> <<>>]

RECURSIVE Encode(_)
\* json.dumps(value, default=str), up to the text: the document written
Encode(v) ==
    LET each == [i \in 1..Len(v.items) |-> Entry(v.items[i].k, Encode(v.items[i].v))] IN
    CASE v.t = "dict" -> [JsonNull EXCEPT !.t = "object", !.items = each]
      [] v.t = "list" -> [JsonNull EXCEPT !.t = "array", !.items = each]
      [] v.t = "str" -> [JsonNull EXCEPT !.t = "string", !.s = v.s]
      [] v.t = "int" -> [JsonNull EXCEPT !.t = "number", !.n = v.n]
      [] v.t = "none" -> JsonNull
      [] OTHER -> \* default=str: str(value), as for a generator object
                  [JsonNull EXCEPT !.t = "string", !.s = <<"<", v.t, " object>">>]

RECURSIVE Decode(_)
\* json.loads, from the document read to the value
Decode(doc) ==
    LET each == [i \in 1..Len(doc.items) |-> Entry(doc.items[i].k, Decode(doc.items[i].v))] IN
    CASE doc.t = "object" -> PyDict(each)
      [] doc.t = "array" -> PyList(each)
      [] doc.t = "string" -> PyStr(doc.s)
      [] doc.t = "number" -> PyInt(doc.n)
      [] OTHER -> PyNone

\* A text: JSON text holding a document, text that is no JSON, or the
\* diagnostic f"Invalid function name: {name}"
JsonText(doc) == [form |-> "json", doc |-> doc, name |-> <<>>]
Garbage == [form |-> "garbage", doc |-> JsonNull, name |-> <<>>]
InvalidFunctionName(name) == [form |-> "invalid function name", doc |-> JsonNull, name |-> name]

json_dumps(value) == JsonText(Encode(value))

json_loads(text) ==
    IF text.form = "json" THEN [exc |-> "none", value |-> Decode(text.doc)]
    ELSE [exc |-> "JSONDecodeError", value |-> PyNone]

----------------------------------------------------------------------------
(***************************************************************************)
(* The client handed to AutoToolWrapper: client["client"] is the object    *)
(* whose members are reflected.                                            *)
(***************************************************************************)
\* A member of the object: its name, whether it is callable, whether it
\* carries a docstring, its parameter names and what calling it does
Member(name, callable, doc, sig, body) ==
    [name |-> name, callable |-> callable, doc |-> doc, sig |-> sig, body |-> body]

Method(name, sig, body) == Member(name, TRUE, TRUE, sig, body)

\* dir(FakeSdk()): the public and private members in dir()'s sorted order,
\* with a private _get_thing and a data attribute get_timeout added
FakeSdk ==
    << Method(_dummy_return, <<"thing_id">>, "dummy_return"),
       Method(_get_thing, <<"thing_id">>, "dummy_return"),
       Method(create_thing, <<"thing_id">>, "dummy_return"),
       Method(delete_thing, <<"thing_id">>, "dummy_return"),
       Method(get_thing, <<"thing_id">>, "dummy_return"),
       Method(get_things, <<>>, "things"),
       Method(get_things_generator, <<"start_id", "count">>, "generator"),
       Member(get_timeout, FALSE, FALSE, <<>>, "attribute"),
       Method(update_thing, <<"thing_id">>, "dummy_return") >>

\* an object with one public method that carries no docstring
BareSdk == << Member(get_thing, TRUE, FALSE, <<"thing_id">>, "dummy_return") >>

\* an object whose methods return a mapping, a generator and text, or raise
\* from inside their own body; it has no delete_thing
RunSdk ==
    << Method(get_broken, <<>>, "raise AttributeError"),
       Method(get_invalid, <<>>, "raise ValueError"),
       Method(get_name, <<>>, "text"),
       Method(get_thing, <<"thing_id">>, "dummy_return"),
       Method(get_things, <<>>, "things"),
       Method(get_things_generator, <<"start_id", "count">>, "generator"),
       Member(get_timeout, FALSE, FALSE, <<>>, "attribute") >>

\* {"client": sdk}, a mapping without the "client" entry, and an object that
\* is no mapping at all
ClientOf(members) == [kind |-> "mapping", hasClient |-> TRUE, members |-> members]
EmptyMapping == [kind |-> "mapping", hasClient |-> FALSE, members |-> <<>>]
NotAMapping == [kind |-> "object", hasClient |-> FALSE, members |-> FakeSdk]

Clients == {ClientOf(FakeSdk), ClientOf(BareSdk), EmptyMapping, NotAMapping}

\* self.client.get("client"): a missing entry reflects None, which has no
\* public member
ClientLookupTolerant(c) ==
    IF c.kind # "mapping" THEN [exc |-> "TypeError", members |-> <<>>]
    ELSE [exc |-> "none", members |-> IF c.hasClient THEN c.members ELSE <<>>]

\* self.client["client"]
ClientLookup(c) ==
    IF c.kind # "mapping" THEN [exc |-> "TypeError", members |-> <<>>]
    ELSE IF ~c.hasClient THEN [exc |-> "KeyError", members |-> <<>>]
    ELSE [exc |-> "none", members |-> c.members]

\* the comprehension without its test of the leading underscore
IsSdkFunctionWithPrivate(m) == m.callable

\* _build_operations: the sdk_functions comprehension
IsSdkFunction(m) == m.callable /\ ~startswith(m.name, <<"_">>)

sdk_functions(members) == SelectSeq(members, IsSdkFunction)

RECURSIVE AnyBucket(_, _, _, _, _)
\* _build_operations: any(matches_pattern(func_name, crud_type) for ...),
\* which stops at the first approval
AnyBucket(func_name, k, flags, lists, cache) ==
    IF k > Len(CRUD_TYPES) THEN [exc |-> "none", value |-> FALSE, cache |-> cache]
    ELSE CHOOSE out \in
            { IF r.exc # "none" \/ r.value THEN r
              ELSE AnyBucket(func_name, k + 1, flags, lists, r.cache) :
              r \in {matches_pattern(func_name, CRUD_TYPES[k], flags, lists, cache)} } :
            TRUE

RECURSIVE BuildFrom(_, _, _, _, _, _)
\* _build_operations: the loop over sdk_functions
BuildFrom(funcs, k, operations, flags, lists, cache) ==
    IF k > Len(funcs)
    THEN [exc |-> "none", operations |-> operations, cache |-> cache]
    ELSE IF ~funcs[k].doc
    THEN \* AutoTool(description=None): description is declared str
         [exc |-> "ValidationError", operations |-> operations, cache |-> cache]
    ELSE CHOOSE out \in
            { IF should_add.exc # "none"
              THEN [exc |-> should_add.exc, operations |-> operations,
                    cache |-> should_add.cache]
              ELSE BuildFrom(funcs, k + 1,
                             IF should_add.value
                             THEN Append(operations, funcs[k].name)
                             ELSE operations,
                             flags, lists, should_add.cache) :
              should_add \in {AnyBucket(funcs[k].name, 1, flags, lists, cache)} } :
            TRUE

\* AutoToolWrapper._build_operations
_build_operations(c, flags, lists, cache) ==
    LET target == ClientLookup(c) IN
    IF target.exc # "none"
    THEN [exc |-> target.exc, operations |-> <<>>, cache |-> cache]
    ELSE BuildFrom(sdk_functions(target.members), 1, <<>>, flags, lists, cache)

----------------------------------------------------------------------------
(***************************************************************************)
(* AutoTool._run                                                           *)
(***************************************************************************)
\* tool_input: None, a dict or a str
NoInput == [kind |-> "none", value |-> PyNone, text |-> Garbage]
DictInput(d) == [kind |-> "dict", value |-> d, text |-> Garbage]
StrInput(text) == [kind |-> "str", value |-> PyNone, text |-> text]

\* _run: the normalisation of tool_input into params
Params(tool_input) ==
    CASE tool_input.kind = "dict" -> tool_input.value
      [] tool_input.kind = "str" ->
            LET r == json_loads(tool_input.text) IN
            IF r.exc = "JSONDecodeError" THEN EmptyDict ELSE r.value
      [] OTHER -> EmptyDict

\* getattr(self.client["client"], self.name)
HasMember(members, name) == \E i \in 1..Len(members) : members[i].name = name

GetMember(members, name) ==
    members[CHOOSE i \in 1..Len(members) : members[i].name = name]

\* FakeSdk._dummy_return
DummyReturn(thing_id) ==
    PyDict(<< Entry("status", PyInt(200)),
              Entry("response", PyDict(<<Entry("id", thing_id)>>)) >>)

\* func(*args, **{**params, **kwargs}): the keyword argument replaces the
\* payload's
MergeKeywordWins(params, kwargs) ==
    IF params.t # "dict"
    THEN [exc |-> "TypeError", named |-> EmptyDict]
    ELSE [exc |-> "none",
          named |-> PyDict(SelectSeq(params.items, LAMBDA e : e.k \notin Keys(kwargs))
                           \o kwargs.items)]

\* func(*args, **params, **kwargs): the named arguments the call passes
MergeNamed(params, kwargs) ==
    IF params.t # "dict"
    THEN \* argument after ** must be a mapping
         [exc |-> "TypeError", named |-> EmptyDict]
    ELSE IF Keys(params) \cap Keys(kwargs) # {}
    THEN \* got multiple values for keyword argument
         [exc |-> "TypeError", named |-> EmptyDict]
    ELSE [exc |-> "none", named |-> PyDict(params.items \o kwargs.items)]

\* the arguments fit the parameters: none given twice, none unknown, none
\* missing
Binds(sig, args, named) ==
    LET positional == {sig[i] : i \in 1..(IF Len(args) < Len(sig) THEN Len(args) ELSE Len(sig))}
        all == {sig[i] : i \in 1..Len(sig)}
    IN /\ Len(args) <= Len(sig)
       /\ positional \cap Keys(named) = {}
       /\ Keys(named) \subseteq all
       /\ all \subseteq (positional \cup Keys(named))

Argument(sig, args, named, name) ==
    LET i == CHOOSE j \in 1..Len(sig) : sig[j] = name IN
    IF i <= Len(args) THEN args[i] ELSE Get(named, name)

\* the body of a method of the client
Body(m, args, named) ==
    LET arg(name) == Argument(m.sig, args, named, name) IN
    CASE m.body = "dummy_return" ->
            [exc |-> "none", value |-> DummyReturn(arg("thing_id"))]
      [] m.body = "things" ->
            [exc |-> "none", value |-> DummyReturn(PyInt(123))]
      [] m.body = "generator" ->
            IF arg("start_id").t = "int" /\ arg("count").t = "int"
            THEN [exc |-> "none",
                  value |-> PyGenerator([i \in 1..arg("count").n |->
                                Elem(DummyReturn(PyInt(arg("start_id").n + i - 1)))])]
            ELSE [exc |-> "TypeError", value |-> PyNone]
      [] m.body = "text" ->
            [exc |-> "none", value |-> PyStr(<<"o", "k">>)]
      [] m.body = "raise AttributeError" ->
            [exc |-> "AttributeError", value |-> PyNone]
      [] OTHER ->
            [exc |-> "ValueError", value |-> PyNone]

\* isinstance(result, (Iterator, Iterable)) and isinstance(result, (str, bytes))
IsIterable(v) == v.t \in {"dict", "list", "generator", "str"}
IsText(v) == v.t = "str"

\* list(result)
Drain(v) ==
    CASE v.t = "str" -> PyList([i \in 1..Len(v.s) |-> Elem(PyStr(<<v.s[i]>>))])
      [] v.t = "dict" -> PyList([i \in 1..Len(v.items) |-> Elem(PyStr(<<v.items[i].k>>))])
      [] OTHER -> PyList(v.items)

\* the result handed to json.dumps as the member returned it
NormalizeResultUndrained(result) == result

\* _run: the normalisation of the member's result
NormalizeResult(result) ==
    IF result.t = "dict" THEN result
    ELSE IF IsIterable(result) /\ ~IsText(result) THEN Drain(result)
    ELSE result

NoText == [form |-> "none", doc |-> JsonNull, name |-> <<>>]

Raised(exc, found, called, params, named, result) ==
    [exc |-> exc, ret |-> NoText, found |-> found, called |-> called,
     params |-> params, named |-> named, result |-> result]

\* _run without its except clause
PropagateAttributeError(outcome, name) == outcome

\* _run: except AttributeError
CatchAttributeError(outcome, name) ==
    IF outcome.exc = "AttributeError"
    THEN [outcome EXCEPT !.exc = "none", !.ret = InvalidFunctionName(name)]
    ELSE outcome

\* _run: the body of the try block
TryRun(c, name, tool_input, args, kwargs) ==
    LET params == Params(tool_input)
        target == ClientLookup(c)
    IN IF target.exc # "none"
       THEN Raised(target.exc, FALSE, FALSE, params, EmptyDict, PyNone)
       ELSE IF ~HasMember(target.members, name)
       THEN Raised("AttributeError", FALSE, FALSE, params, EmptyDict, PyNone)
       ELSE LET func == GetMember(target.members, name)
                merged == MergeNamed(params, kwargs)
            IN IF merged.exc # "none"
               THEN Raised(merged.exc, TRUE, FALSE, params, EmptyDict, PyNone)
               ELSE IF ~func.callable \/ ~Binds(func.sig, args, merged.named)
               THEN Raised("TypeError", TRUE, FALSE, params, merged.named, PyNone)
               ELSE LET result == Body(func, args, merged.named) IN
                    IF result.exc # "none"
                    THEN Raised(result.exc, TRUE, TRUE, params, merged.named, PyNone)
                    ELSE [exc |-> "none",
                          ret |-> json_dumps(NormalizeResult(result.value)),
                          found |-> TRUE, called |-> TRUE, params |-> params,
                          named |-> merged.named, result |-> result.value]

\* AutoTool._run
_run(c, name, tool_input, args, kwargs) ==
    CatchAttributeError(TryRun(c, name, tool_input, args, kwargs), name)

----------------------------------------------------------------------------
(***************************************************************************)
(* State                                                                   *)
(***************************************************************************)
VARIABLES
    flags,               \* CrudControls.create / read / update / delete
    lists,               \* CrudControls.create_list / ... / delete_list
    _compiled_patterns,  \* CrudControls._compiled_patterns
    edits,               \* number of changes made to the rule sets
    last,                \* the last classifier call made under these rule sets
    client,              \* the client given to AutoToolWrapper
    wrapper,             \* the AutoToolWrapper, once constructed
    call                 \* the last AutoTool._run call and its outcome

classifierVars == <<flags, lists, _compiled_patterns, edits, last>>
builderVars == <<client, wrapper>>
vars == <<flags, lists, _compiled_patterns, edits, last, client, wrapper, call>>

\* Bounds: the changes made to the rule sets, and the members a client loses
MaxEdits == 1
MaxDrops == 1

\* The pattern lists a rule set is given
ListPool ==
    { NoneList,
      ListOf(<<>>),
      ListOf(<<PAT_GET_THING>>),
      ListOf(<<PAT_STAR_THING>>),
      ListOf(<<PAT_R_GET_THING>>),
      ListOf(<<PAT_OPEN_GET, PAT_R_STAR_THING>>),
      ListOf(<<PAT_OVERFLOW>>) }

\* The names the classifier is asked about
QueryNames == {_dummy_return, create_thing, get_thing, get_things}

NoCall == [op |-> "none", func_name |-> <<>>, crud_type |-> "none",
           exc |-> "none", value |-> FALSE]

NoWrapper == [status |-> "none", exc |-> "none", operations |-> <<>>]

NoRun == [op |-> "none", name |-> <<>>, tool_input |-> NoInput, args |-> <<>>,
          kwargs |-> EmptyDict, present |-> FALSE,
          out |-> Raised("none", FALSE, FALSE, EmptyDict, EmptyDict, PyNone)]

\* CrudControls() and CrudControls(read=True, create=True, update=True,
\* delete=True): the flags the rule sets are constructed with
AllEnabled == [b \in Buckets |-> TRUE]

InitClassifier ==
    /\ flags \in {AUTOTOOL_CRUD_CONTROLS, AllEnabled}
    /\ lists = AUTOTOOL_CRUD_CONTROLS_LIST
    /\ _compiled_patterns = EmptyCache
    /\ edits = 0
    /\ last = NoCall

Init ==
    /\ InitClassifier
    /\ client = ClientOf(FakeSdk)
    /\ wrapper = NoWrapper
    /\ call = NoRun

\* crud_controls.<crud_type> = value
SetEnabled(crud_type, value) ==
    /\ edits < MaxEdits
    /\ flags[crud_type] # value
    /\ flags' = [flags EXCEPT ![crud_type] = value]
    /\ edits' = edits + 1
    /\ last' = NoCall
    /\ UNCHANGED <<lists, _compiled_patterns, client, wrapper, call>>

\* crud_controls.<crud_type>_list = pattern_list
SetList(crud_type, pattern_list) ==
    /\ edits < MaxEdits
    /\ lists[crud_type] # pattern_list
    /\ lists' = [lists EXCEPT ![crud_type] = pattern_list]
    /\ edits' = edits + 1
    /\ last' = NoCall
    /\ UNCHANGED <<flags, _compiled_patterns, client, wrapper, call>>

\* crud_controls.compile_patterns()
CompilePatterns ==
    LET r == compile_patterns(lists) IN
    /\ _compiled_patterns' = r.cache
    /\ last' = [NoCall EXCEPT !.op = "compile_patterns", !.exc = r.exc]
    /\ UNCHANGED <<flags, lists, edits, client, wrapper, call>>

\* crud_controls.matches_pattern(func_name, crud_type)
MatchesPattern(func_name, crud_type) ==
    LET r == matches_pattern(func_name, crud_type, flags, lists, _compiled_patterns) IN
    /\ _compiled_patterns' = r.cache
    /\ last' = [op |-> "matches_pattern", func_name |-> func_name,
                crud_type |-> crud_type, exc |-> r.exc, value |-> r.value]
    /\ UNCHANGED <<flags, lists, edits, client, wrapper, call>>

\* AutoToolWrapper(client=client, crud_controls=crud_controls): __init__
\* assigns self.operations only when _build_operations returns
Construct ==
    LET r == _build_operations(client, flags, lists, _compiled_patterns) IN
    /\ wrapper' = IF r.exc = "none"
                  THEN [status |-> "built", exc |-> "none", operations |-> r.operations]
                  ELSE [status |-> "failed", exc |-> r.exc, operations |-> <<>>]
    /\ _compiled_patterns' = r.cache
    /\ last' = [NoCall EXCEPT !.op = "construct", !.exc = r.exc]
    /\ UNCHANGED <<flags, lists, edits, client, call>>

Next ==
    \/ \E b \in Buckets, v \in BOOLEAN : SetEnabled(b, v)
    \/ \E b \in Buckets, l \in ListPool : SetList(b, l)
    \/ CompilePatterns
    \/ \E n \in QueryNames, b \in Buckets : MatchesPattern(n, b)

Spec == Init /\ [][Next]_vars

InitBuilder ==
    /\ InitClassifier
    /\ client \in Clients
    /\ wrapper = NoWrapper
    /\ call = NoRun

NextBuilder ==
    \/ \E b \in Buckets, v \in BOOLEAN : SetEnabled(b, v)
    \/ \E b \in Buckets, l \in ListPool : SetList(b, l)
    \/ CompilePatterns
    \/ Construct

SpecBuilder == InitBuilder /\ [][NextBuilder]_vars

(***************************************************************************)
(* The invocation adapter: tools bound to a client, called with payloads,  *)
(* positional and keyword arguments, while the client may lose members.    *)
(***************************************************************************)
ToolNames ==
    {get_broken, get_invalid, get_name, get_thing, get_things, get_things_generator,
     get_timeout, delete_thing}

ThingPayload == PyDict(<<Entry("thing_id", PyInt(123))>>)
GeneratorPayload == PyDict(<<Entry("start_id", PyInt(100)), Entry("count", PyInt(3))>>)

Payloads ==
    { NoInput,
      DictInput(ThingPayload),
      DictInput(GeneratorPayload),
      StrInput(json_dumps(ThingPayload)),
      StrInput(json_dumps(GeneratorPayload)),
      StrInput(json_dumps(PyList(<<Elem(PyInt(1)), Elem(PyInt(2))>>))),
      StrInput(json_dumps(PyNone)),
      StrInput(Garbage) }

PositionalArgs == { <<>>, <<PyInt(5)>> }

KeywordArgs == { EmptyDict, PyDict(<<Entry("thing_id", PyInt(7))>>) }

InitRun ==
    /\ InitClassifier
    /\ flags = AUTOTOOL_CRUD_CONTROLS
    /\ client = ClientOf(RunSdk)
    /\ wrapper = NoWrapper
    /\ call = NoRun

\* AutoTool(client=client, name=name, ...)._run(tool_input, *args, **kwargs)
Run(name, tool_input, args, kwargs) ==
    /\ call' = [op |-> "run", name |-> name, tool_input |-> tool_input,
                args |-> args, kwargs |-> kwargs,
                present |-> HasMember(client.members, name),
                out |-> _run(client, name, tool_input, args, kwargs)]
    /\ UNCHANGED <<flags, lists, _compiled_patterns, edits, last, client, wrapper>>

\* delattr: the client loses a member after the tools were made
ClientDrop(name) ==
    /\ Len(RunSdk) - Len(client.members) < MaxDrops
    /\ HasMember(client.members, name)
    /\ client' = [client EXCEPT !.members =
                      SelectSeq(client.members, LAMBDA m : m.name # name)]
    /\ call' = NoRun
    /\ UNCHANGED <<flags, lists, _compiled_patterns, edits, last, wrapper>>

NextRun ==
    \/ \E n \in ToolNames, i \in Payloads, a \in PositionalArgs, k \in KeywordArgs :
          Run(n, i, a, k)
    \/ \E n \in ToolNames : ClientDrop(n)

SpecRun == InitRun /\ [][NextRun]_vars

----------------------------------------------------------------------------
(***************************************************************************)
(* Properties of the classifier (Spec)                                     *)
(***************************************************************************)
AllNames ==
    {_dummy_return, _get_thing, create_thing, delete_thing, get_thing, get_things,
     get_things_generator, get_timeout, update_thing}

ListsAreLists == \A b \in Buckets : ~lists[b].isNone

\* a pattern that is sniffed as regex and that re.compile rejects
Malformed(pattern) ==
    /\ _is_regex_pattern(pattern)
    /\ re_compile(StripMarker(pattern)).err # "none"

\* C2: a query of a bucket whose enabled flag is false returns false (and so
\* does not raise), whatever the bucket's pattern list holds and whatever the
\* state of the compiled-pattern cache.
C2_DisabledBucketReturnsFalse ==
    (last.op = "matches_pattern" /\ ~flags[last.crud_type])
        => (last.exc = "none" /\ last.value = FALSE)

\* what a classifier freshly derived from the current rule sets answers
FreshAnswer(func_name, crud_type) ==
    LET r == matches_pattern(func_name, crud_type, flags, lists, EmptyCache)
    IN <<r.exc, r.value>>

CachedAnswer(func_name, crud_type) ==
    LET r == matches_pattern(func_name, crud_type, flags, lists, _compiled_patterns)
    IN <<r.exc, r.value>>

\* C3: the compiled-pattern cache is always coherent with the rule sets: in
\* every state a query answers what a classifier freshly derived from the
\* current rule sets answers.
C3_CacheCoherent ==
    \A n \in AllNames, b \in Buckets : CachedAnswer(n, b) = FreshAnswer(n, b)

\* C8: classification never raises on a malformed pattern: compile_patterns
\* and matches_pattern complete without raising, and a compile leaves every
\* pattern that is sniffed as regex and fails to compile in its bucket's glob
\* patterns.
C8_MalformedFallsBackToGlob ==
    (last.op \in {"compile_patterns", "matches_pattern"} /\ ListsAreLists)
        => /\ last.exc = "none"
           /\ last.op = "compile_patterns" =>
                 \A b \in Buckets : \A i \in 1..Len(lists[b].pats) :
                     Malformed(lists[b].pats[i]) =>
                         \E g \in 1..Len(CacheGet(_compiled_patterns, b).glob) :
                             CacheGet(_compiled_patterns, b).glob[g]
                                 = StripMarker(lists[b].pats[i])

----------------------------------------------------------------------------
(***************************************************************************)
(* Properties of the operation builder (SpecBuilder)                       *)
(***************************************************************************)
\* approved by matches_pattern under at least one bucket, the cache being the
\* one the construction left
ApprovedByAny(name) ==
    \E b \in Buckets : MatchCompiled(name, b, flags, _compiled_patterns)

ApprovedBuckets(name) ==
    {b \in Buckets : MatchCompiled(name, b, flags, _compiled_patterns)}

ExpectedOperation(m) == m.callable /\ m.name[1] # "_" /\ ApprovedByAny(m.name)

MemberNames(members) == [i \in 1..Len(members) |-> members[i].name]

JustBuilt == last.op = "construct" /\ wrapper.status = "built"

\* C1: after construction the operation names are the client's member
\* enumeration, in its order, filtered to the callable names that do not
\* start with an underscore and that matches_pattern approves under at least
\* one bucket; each appears once, and no private or unapproved name appears.
C1_OperationsAreApprovedMembers ==
    JustBuilt =>
        /\ wrapper.operations
              = MemberNames(SelectSeq(client.members, ExpectedOperation))
        /\ \A i, j \in 1..Len(wrapper.operations) :
              wrapper.operations[i] = wrapper.operations[j] => i = j
        /\ \A i \in 1..Len(wrapper.operations) :
              /\ wrapper.operations[i][1] # "_"
              /\ ApprovedByAny(wrapper.operations[i])

\* a construction that approved a name under two buckets and left out a
\* private member and a data attribute that a pattern matches
C1_Witness ==
    /\ JustBuilt
    /\ \E i \in 1..Len(wrapper.operations) :
          Cardinality(ApprovedBuckets(wrapper.operations[i])) >= 2
    /\ \E i \in 1..Len(client.members) :
          /\ client.members[i].name[1] = "_"
          /\ ApprovedByAny(client.members[i].name)
    /\ \E i \in 1..Len(client.members) :
          /\ ~client.members[i].callable
          /\ ApprovedByAny(client.members[i].name)

\* C9: when the client has not the expected shape, construction fails with a
\* ConfigurationError and leaves no operation set.
C9_FailsWithConfigurationError ==
    (last.op = "construct" /\ ClientLookup(client).exc # "none")
        => /\ wrapper.status = "failed"
           /\ wrapper.exc = "ConfigurationError"
           /\ wrapper.operations = <<>>

\* C9, as amended: on a client without the expected shape construction fails
\* with the lookup's own KeyError or TypeError, leaves no operation set and
\* does not touch the classifier; and no failed construction, whatever its
\* cause, leaves operations behind.
C9_FailsWithLookupError ==
    /\ (last.op = "construct" /\ client = EmptyMapping)
          => (wrapper.status = "failed" /\ wrapper.exc = "KeyError")
    /\ (last.op = "construct" /\ client = NotAMapping)
          => (wrapper.status = "failed" /\ wrapper.exc = "TypeError")
    /\ (last.op = "construct" /\ client \in {EmptyMapping, NotAMapping})
          => last.exc = wrapper.exc
    /\ wrapper.status # "built" => wrapper.operations = <<>>

\* a construction on a mapping without its "client" entry has failed
C9_Witness ==
    /\ last.op = "construct"
    /\ client = EmptyMapping
    /\ wrapper.status = "failed"
    /\ wrapper.exc = "KeyError"

\* only the read bucket is enabled and read_list is a single pattern that is
\* sniffed as a glob, thus has no wildcard, no regex metacharacter and no
\* r"..." marker
OnlyReadEnabled ==
    flags = [create |-> FALSE, read |-> TRUE, update |-> FALSE, delete |-> FALSE]

SingleLiteralReadPattern ==
    /\ ~lists["read"].isNone
    /\ Len(lists["read"].pats) = 1
    /\ ~_is_regex_pattern(lists["read"].pats[1])

NamesEqualTo(P, members) ==
    LET Equal(m) == m.callable /\ m.name[1] # "_" /\ m.name = P
    IN  MemberNames(SelectSeq(members, Equal))

\* C11: with only the read bucket enabled and read_list a single pattern P
\* without wildcard or regex metacharacter, the operation set a construction
\* yields holds exactly the public callable members whose name equals P; a
\* member whose name only starts with or contains P is not in it.
C11_LiteralPatternSelectsEqualName ==
    (JustBuilt /\ OnlyReadEnabled /\ SingleLiteralReadPattern)
        => wrapper.operations = NamesEqualTo(lists["read"].pats[1], client.members)

----------------------------------------------------------------------------
(***************************************************************************)
(* Properties of the invocation adapter (SpecRun)                          *)
(***************************************************************************)
Ran == call.op = "run"

ReturnedInvalidFunctionName ==
    call.out.exc = "none" /\ call.out.ret.form = "invalid function name"

\* the member the call names, as the client had it
Called == GetMember(client.members, call.name)

\* C4: an exception raised inside the wrapped member propagates out of _run
\* unmasked, and _run returns the "Invalid function name:" text only when
\* the member is absent.
C4_MemberExceptionsPropagate ==
    Ran => /\ ReturnedInvalidFunctionName => ~call.present
           /\ (call.out.called /\ Called.body = "raise AttributeError")
                 => call.out.exc = "AttributeError"
           /\ (call.out.called /\ Called.body = "raise ValueError")
                 => call.out.exc = "ValueError"

MappingOfText(text) ==
    IF text.form = "json" /\ text.doc.t = "object" THEN Decode(text.doc) ELSE EmptyDict

\* C6: for every text payload the named-argument mapping is the decoded
\* mapping when the text decodes into a mapping and the empty mapping
\* otherwise (text that is no JSON, text that decodes into something else);
\* the member is then called with no argument from the payload.
C6_TextPayloadNeverRaises ==
    (Ran /\ call.tool_input.kind = "str")
        => /\ call.out.params = MappingOfText(call.tool_input.text)
           /\ (call.present /\ Called.callable
               /\ MappingOfText(call.tool_input.text) = EmptyDict
               /\ Binds(Called.sig, call.args, call.kwargs))
                 => (call.out.called /\ call.out.named = call.kwargs)

Collision ==
    /\ call.out.params.t = "dict"
    /\ Keys(call.out.params) \cap Keys(call.kwargs) # {}

\* C7: when the normalised payload and the keyword arguments hold the same
\* key, the member is called with the merged arguments in which the keyword
\* argument's value wins.
C7_KeywordArgsWin ==
    (Ran /\ call.present /\ Called.callable /\ Collision
         /\ Binds(Called.sig, call.args, call.kwargs))
        => /\ call.out.called
           /\ \A k \in Keys(call.kwargs) : Get(call.out.named, k) = Get(call.kwargs, k)

\* C7, as amended: on a shared key the call raises TypeError before the
\* member is entered and passes neither value; without a shared key the
\* arguments passed are the payload's entries followed by the keyword
\* arguments.
C7_CollisionRaisesTypeError ==
    (Ran /\ call.present)
        => /\ Collision => (call.out.exc = "TypeError" /\ ~call.out.called)
           /\ call.out.called
                 => /\ Keys(call.out.params) \cap Keys(call.kwargs) = {}
                    /\ call.out.named.items = call.out.params.items \o call.kwargs.items

\* a call of get_thing with thing_id in the payload and in the keyword
\* arguments
C7_Witness ==
    /\ Ran
    /\ call.present
    /\ call.name = get_thing
    /\ Collision
    /\ call.args = <<>>
    /\ call.out.exc = "TypeError"

Returned == json_loads(call.out.ret).value

\* C10: a generator result of n values is drained: the returned text decodes
\* to a list of exactly the n values in the order produced; a mapping and a
\* text result are serialised as they are.
C10_GeneratorIsDrained ==
    (Ran /\ call.out.called /\ call.out.result.t \in {"generator", "dict", "str"})
        => /\ call.out.exc = "none"
           /\ call.out.ret.form = "json"
           /\ call.out.result.t = "generator"
                 => /\ Returned.t = "list"
                    /\ Len(Returned.items) = Len(call.out.result.items)
                    /\ \A i \in 1..Len(Returned.items) :
                          Returned.items[i].v = call.out.result.items[i].v
           /\ call.out.result.t \in {"dict", "str"} => Returned = call.out.result

\* get_things_generator(start_id=100, count=3) decoded to three mappings
\* with the ids 100, 101, 102
C10_Witness ==
    /\ Ran
    /\ call.name = get_things_generator
    /\ call.out.exc = "none"
    /\ Returned.t = "list"
    /\ Len(Returned.items) = 3
    /\ \A i \in 1..3 :
          /\ Returned.items[i].v.t = "dict"
          /\ Get(Returned.items[i].v, "status") = PyInt(200)
          /\ Get(Get(Returned.items[i].v, "response"), "id") = PyInt(99 + i)

====
